---- MODULE Spec2Model ----
(***************************************************************************)
(* OpenMemory FastMCP server (server_standalone.py): the four tool         *)
(* handlers add_memories, search_memory, list_memories and                 *)
(* delete_all_memories, the startup seeding, the relational ledger they    *)
(* write and the memory engine / vector store they call.                   *)
(*                                                                         *)
(* Every handler is a coroutine that never awaits between opening its      *)
(* session and returning (the engine and the database are called           *)
(* synchronously), so one handler runs to completion before the next one   *)
(* starts: a handler is one action.                                        *)
(***************************************************************************)
EXTENDS Integers, Sequences, FiniteSets, TLC

\* ---------------------------------------------------------------- bounds
NumIds == 2          \* memory ids the engine can hand out
MaxEvents == 2       \* events in one engine response to add
MaxRequests == 3     \* tool calls in one run of the server

\* ------------------------------------------------------- program constants
DEFAULT_USER_ID == "default_user"
DEFAULT_CLIENT_NAME == "default_app"
QueryLimit == 10

\* ------------------------------------------------------------ value spaces
None == "None"
NULL == "NULL"
\* the (user_id, client_name) arguments the tools are called with: the
\* defaults, a second client of the default user, and a second user
Callers == {<<None, None>>, <<None, "c2">>, <<"u2", None>>}
Texts == {"tea", "coffee"}
Queries == {"q"}
Scores == {1, 2}
MemIds == 1..NumIds
\* the event kinds the handler tells apart: ADD, DELETE, and any other
\* (UPDATE stands for UPDATE and NONE, which take the same path)
EventKinds == {"ADD", "UPDATE", "DELETE"}
NoMemory == [user_id |-> None, app_id |-> <<None, None>>, content |-> None,
             state |-> "absent", deleted_at |-> NULL]
Absent == "absent"
Now == "now"

VARIABLES users, apps, default_rows, memories, history, access_log, vstore, last, nreq

vars == <<users, apps, default_rows, memories, history, access_log, vstore, last, nreq>>

\* ------------------------------------------------------------ conversions
\* str(uuid): the canonical text of a memory id
IdStr(id) == ToString(id)

IdStrs == {IdStr(id) : id \in MemIds}

\* uuid.UUID(text): the id a canonical text denotes
UUID(s) == CHOOSE id \in MemIds : IdStr(id) = s

\* x or DEFAULT
OrDefault(arg, default) == IF arg = None THEN default ELSE arg

\* ------------------------------------------------------------ sequences
Range(s) == {s[i] : i \in 1..Len(s)}

\* every listing of a finite set, each element once
Orderings(S) == {s \in [1..Cardinality(S) -> S] : Range(s) = S}

Min(a, b) == IF a < b THEN a ELSE b

\* ------------------------------------------------------------ identity
\* the App row key: (owner, name)
AppId(u, c) == <<u, c>>

AppIds == {AppId(OrDefault(k[1], DEFAULT_USER_ID), OrDefault(k[2], DEFAULT_CLIENT_NAME))
             : k \in Callers}

Users == {k[1] : k \in AppIds}

\* get_user_and_app: the User and App rows of (user_id, client name), created
\* and persisted if missing, a new App being active
get_user_and_app_users(us, u) == us \cup {u}

get_user_and_app_apps(ap, u, c) ==
    IF ap[AppId(u, c)] = Absent THEN [ap EXCEPT ![AppId(u, c)] = "active"] ELSE ap

\* the number of User rows with the default user id and of App rows with the
\* default client name owned by that user, after get_user_and_app
get_user_and_app_rows(rows, us, ap, u, c) ==
    [user |-> rows.user + (IF u = DEFAULT_USER_ID /\ u \notin us THEN 1 ELSE 0),
     app |-> rows.app + (IF /\ AppId(u, c) = AppId(DEFAULT_USER_ID, DEFAULT_CLIENT_NAME)
                            /\ ap[AppId(u, c)] = Absent
                         THEN 1 ELSE 0)]

\* check_memory_access_permissions: the memory is active and the rule set
\* (permitted: the ids the app's access rules let through) allows the app
check_memory_access_permissions(memory, id, permitted) ==
    memory.state = "active" /\ id \in permitted

\* accessible_memory_ids, as a set
AccessibleIds(mems, u, permitted) ==
    {id \in MemIds : /\ mems[id] # NoMemory
                     /\ mems[id].user_id = u
                     /\ check_memory_access_permissions(mems[id], id, permitted)}

ResolvesIdentity_Always(available) ==
    \* mutant: the session is opened and the identity resolved before the
    \* memory client is looked at
    TRUE

\* "if not memory_client: return ..." comes before "async with get_db()":
\* the identity is resolved only when the memory client is there
ResolvesIdentity(available) == available

\* ------------------------------------------------------------ the request record
Idle == [op |-> "none", user |-> None, client |-> None, status |-> "none",
         engine_called |-> FALSE, accessible |-> {}, results |-> <<>>,
         writes |-> <<>>, engine_deletes |-> <<>>, failed_deletes |-> {},
         query |-> None, committed |-> FALSE]

Init ==
    /\ apps \in {ap \in [AppIds -> {Absent, "paused"}] :
                    Cardinality({k \in AppIds : ap[k] = "paused"}) <= 1}
    /\ users = {k[1] : k \in {k \in AppIds : apps[k] # Absent}}
    /\ default_rows =
          [user |-> IF DEFAULT_USER_ID \in users THEN 1 ELSE 0,
           app |-> IF apps[AppId(DEFAULT_USER_ID, DEFAULT_CLIENT_NAME)] # Absent
                   THEN 1 ELSE 0]
    /\ memories = [id \in MemIds |-> NoMemory]
    /\ history = <<>>
    /\ access_log = <<>>
    /\ vstore = [s \in IdStrs |-> Absent]
    /\ last = Idle
    /\ nreq = 0

\* ------------------------------------------------------------ create_default_user_and_app
create_default_user_and_app_NoLookup ==
    \* mutant: the rows are inserted without looking for existing ones
    /\ users' = users \cup {DEFAULT_USER_ID}
    /\ apps' = [apps EXCEPT ![AppId(DEFAULT_USER_ID, DEFAULT_CLIENT_NAME)] = "active"]
    /\ default_rows' = [user |-> default_rows.user + 1, app |-> default_rows.app + 1]
    /\ UNCHANGED <<memories, history, access_log, vstore, last, nreq>>

create_default_user_and_app ==
    /\ users' = users \cup {DEFAULT_USER_ID}
    /\ apps' = IF apps[AppId(DEFAULT_USER_ID, DEFAULT_CLIENT_NAME)] = Absent
               THEN [apps EXCEPT ![AppId(DEFAULT_USER_ID, DEFAULT_CLIENT_NAME)] = "active"]
               ELSE apps
    /\ default_rows' =
          [user |-> default_rows.user + (IF DEFAULT_USER_ID \in users THEN 0 ELSE 1),
           app |-> default_rows.app +
                     (IF apps[AppId(DEFAULT_USER_ID, DEFAULT_CLIENT_NAME)] = Absent
                      THEN 1 ELSE 0)]
    /\ UNCHANGED <<memories, history, access_log, vstore, last, nreq>>

\* ------------------------------------------------------------ the memory engine
\* memory_client.add(text, user_id=..., metadata=...): the events the engine
\* may answer with. An ADD event carries an id the vector store does not hold;
\* UPDATE, DELETE and NONE events refer to memories the store holds for the
\* user; one response names an id at most once. The handler reads
\* result['memory'] of ADD events only, so the other kinds carry None there.
EngineEventOk(vs, u, ev) ==
    IF ev.event = "ADD" THEN vs[ev.id] = Absent ELSE vs[ev.id] = u

EngineEvents ==
    [id : IdStrs, memory : Texts, event : {"ADD"}]
      \cup [id : IdStrs, memory : {None}, event : EventKinds \ {"ADD"}]

EngineResponses(vs, u) ==
    UNION {{r \in [1..n -> EngineEvents] :
                /\ \A i \in 1..n : EngineEventOk(vs, u, r[i])
                /\ \A i, j \in 1..n : r[i].id = r[j].id => i = j}
           : n \in 0..MaxEvents}

\* the vector store after the engine has carried out the events of a response
EngineApply(vs, u, events) ==
    [s \in IdStrs |->
        IF \E i \in 1..Len(events) : events[i].id = s /\ events[i].event = "ADD"
        THEN u
        ELSE IF \E i \in 1..Len(events) : events[i].id = s /\ events[i].event = "DELETE"
             THEN Absent
             ELSE vs[s]]

\* ------------------------------------------------------------ add_memories
ProcessResult_KeepContent(st, result, u, app) ==
    \* mutant: an existing row is set active but keeps its old content
    LET memory_id == UUID(result.id)
        memory == st.memories[memory_id]
    IN  IF result.event = "ADD"
        THEN LET row == IF memory = NoMemory
                        THEN [user_id |-> u, app_id |-> app, content |-> result.memory,
                              state |-> "active", deleted_at |-> NULL]
                        ELSE [memory EXCEPT !.state = "active"]
                 \* "MemoryState.deleted if memory else None" is evaluated after
                 \* memory has been bound to the new row
                 old_state == IF row # NoMemory THEN "deleted" ELSE None
             IN  [memories |-> [st.memories EXCEPT ![memory_id] = row],
                  history |-> Append(st.history,
                                 [memory_id |-> memory_id, changed_by |-> u,
                                  old_state |-> old_state, new_state |-> "active"]),
                  writes |-> Append(st.writes,
                                 [id |-> memory_id, before |-> memory.state,
                                  after |-> "active"])]
        ELSE IF result.event = "DELETE" /\ memory # NoMemory
        THEN [memories |-> [st.memories EXCEPT ![memory_id] =
                               [memory EXCEPT !.state = "deleted", !.deleted_at = Now]],
              history |-> Append(st.history,
                             [memory_id |-> memory_id, changed_by |-> u,
                              old_state |-> "active", new_state |-> "deleted"]),
              writes |-> Append(st.writes,
                             [id |-> memory_id, before |-> memory.state,
                              after |-> "deleted"])]
        ELSE st

ProcessResult_NoDeletedAt(st, result, u, app) ==
    \* mutant: a DELETE event changes the state but sets no deleted_at
    LET memory_id == UUID(result.id)
        memory == st.memories[memory_id]
    IN  IF result.event = "ADD"
        THEN LET row == IF memory = NoMemory
                        THEN [user_id |-> u, app_id |-> app, content |-> result.memory,
                              state |-> "active", deleted_at |-> NULL]
                        ELSE [memory EXCEPT !.state = "active", !.content = result.memory]
                 \* "MemoryState.deleted if memory else None" is evaluated after
                 \* memory has been bound to the new row
                 old_state == IF row # NoMemory THEN "deleted" ELSE None
             IN  [memories |-> [st.memories EXCEPT ![memory_id] = row],
                  history |-> Append(st.history,
                                 [memory_id |-> memory_id, changed_by |-> u,
                                  old_state |-> old_state, new_state |-> "active"]),
                  writes |-> Append(st.writes,
                                 [id |-> memory_id, before |-> memory.state,
                                  after |-> "active"])]
        ELSE IF result.event = "DELETE" /\ memory # NoMemory
        THEN [memories |-> [st.memories EXCEPT ![memory_id] =
                               [memory EXCEPT !.state = "deleted"]],
              history |-> Append(st.history,
                             [memory_id |-> memory_id, changed_by |-> u,
                              old_state |-> "active", new_state |-> "deleted"]),
              writes |-> Append(st.writes,
                             [id |-> memory_id, before |-> memory.state,
                              after |-> "deleted"])]
        ELSE st

ProcessResult_AnyEventWrites(st, result, u, app) ==
    \* mutant: every event that is not an ADD is handled as a DELETE
    LET memory_id == UUID(result.id)
        memory == st.memories[memory_id]
    IN  IF result.event = "ADD"
        THEN LET row == IF memory = NoMemory
                        THEN [user_id |-> u, app_id |-> app, content |-> result.memory,
                              state |-> "active", deleted_at |-> NULL]
                        ELSE [memory EXCEPT !.state = "active", !.content = result.memory]
                 old_state == IF row # NoMemory THEN "deleted" ELSE None
             IN  [memories |-> [st.memories EXCEPT ![memory_id] = row],
                  history |-> Append(st.history,
                                 [memory_id |-> memory_id, changed_by |-> u,
                                  old_state |-> old_state, new_state |-> "active"]),
                  writes |-> Append(st.writes,
                                 [id |-> memory_id, before |-> memory.state,
                                  after |-> "active"])]
        ELSE IF memory # NoMemory
        THEN [memories |-> [st.memories EXCEPT ![memory_id] =
                               [memory EXCEPT !.state = "deleted", !.deleted_at = Now]],
              history |-> Append(st.history,
                             [memory_id |-> memory_id, changed_by |-> u,
                              old_state |-> "active", new_state |-> "deleted"]),
              writes |-> Append(st.writes,
                             [id |-> memory_id, before |-> memory.state,
                              after |-> "deleted"])]
        ELSE st

\* the body of the loop over response['results'], on the session's view
\* st = [memories, history, writes]; writes records, for each state write,
\* the state the row really had before it
ProcessResult(st, result, u, app) ==
    LET memory_id == UUID(result.id)
        memory == st.memories[memory_id]
    IN  IF result.event = "ADD"
        THEN LET row == IF memory = NoMemory
                        THEN [user_id |-> u, app_id |-> app, content |-> result.memory,
                              state |-> "active", deleted_at |-> NULL]
                        ELSE [memory EXCEPT !.state = "active", !.content = result.memory]
                 \* "MemoryState.deleted if memory else None" is evaluated after
                 \* memory has been bound to the new row
                 old_state == IF row # NoMemory THEN "deleted" ELSE None
             IN  [memories |-> [st.memories EXCEPT ![memory_id] = row],
                  history |-> Append(st.history,
                                 [memory_id |-> memory_id, changed_by |-> u,
                                  old_state |-> old_state, new_state |-> "active"]),
                  writes |-> Append(st.writes,
                                 [id |-> memory_id, before |-> memory.state,
                                  after |-> "active"])]
        ELSE IF result.event = "DELETE" /\ memory # NoMemory
        THEN [memories |-> [st.memories EXCEPT ![memory_id] =
                               [memory EXCEPT !.state = "deleted", !.deleted_at = Now]],
              history |-> Append(st.history,
                             [memory_id |-> memory_id, changed_by |-> u,
                              old_state |-> "active", new_state |-> "deleted"]),
              writes |-> Append(st.writes,
                             [id |-> memory_id, before |-> memory.state,
                              after |-> "deleted"])]
        ELSE st

RECURSIVE ProcessResults(_, _, _, _)
ProcessResults(st, results, u, app) ==
    IF results = <<>> THEN st
    ELSE ProcessResults(ProcessResult(st, Head(results), u, app), Tail(results), u, app)

\* what the ledger holds once the session is closed: the session's view if
\* db.commit() was reached, the rows as they were if it was not
Persist_Always(committed, before, pending) ==
    \* mutant: the session is flushed to the database when it is closed
    pending

Persist(committed, before, pending) == IF committed THEN pending ELSE before

IsPaused_Never(app_status) ==
    \* mutant: the is_active check is left out
    FALSE

\* "if not app.is_active"
IsPaused(app_status) == app_status # "active"

add_memories ==
    /\ nreq < MaxRequests
    /\ nreq' = nreq + 1
    /\ \E caller \in Callers, available \in BOOLEAN :
      LET user_id == OrDefault(caller[1], DEFAULT_USER_ID)
          client_name == OrDefault(caller[2], DEFAULT_CLIENT_NAME)
          app == AppId(user_id, client_name)
          req == [Idle EXCEPT !.op = "add", !.user = user_id, !.client = client_name]
      IN  IF ~available
          THEN /\ last' = [req EXCEPT !.status = "unavailable"]
               /\ users' = IF ResolvesIdentity(available)
                           THEN get_user_and_app_users(users, user_id) ELSE users
               /\ apps' = IF ResolvesIdentity(available)
                          THEN get_user_and_app_apps(apps, user_id, client_name) ELSE apps
               /\ default_rows' =
                     IF ResolvesIdentity(available)
                     THEN get_user_and_app_rows(default_rows, users, apps,
                                                user_id, client_name)
                     ELSE default_rows
               /\ UNCHANGED <<memories, history, access_log, vstore>>
          ELSE /\ users' = get_user_and_app_users(users, user_id)
               /\ apps' = get_user_and_app_apps(apps, user_id, client_name)
               /\ default_rows' = get_user_and_app_rows(default_rows, users, apps,
                                                        user_id, client_name)
               /\ UNCHANGED access_log
               /\ IF IsPaused(apps'[app])
                  THEN /\ last' = [req EXCEPT !.status = "paused"]
                       /\ UNCHANGED <<memories, history, vstore>>
                  ELSE \/ \* memory_client.add raises
                          /\ last' = [req EXCEPT !.status = "exception",
                                                 !.engine_called = TRUE]
                          /\ UNCHANGED <<memories, history, vstore>>
                       \/ \E response \in EngineResponses(vstore, user_id),
                             has_results \in BOOLEAN :
                          \E raise_at \in 0..(IF has_results THEN Len(response) + 1 ELSE 0) :
                            LET \* the events processed before an exception, if any
                                done == IF ~has_results THEN <<>>
                                        ELSE IF raise_at = 0 THEN response
                                        ELSE SubSeq(response, 1, raise_at - 1)
                                st == ProcessResults([memories |-> memories,
                                                      history |-> history,
                                                      writes |-> <<>>],
                                                     done, user_id, app)
                                committed == has_results /\ raise_at = 0
                            IN  /\ vstore' = EngineApply(vstore, user_id, response)
                                /\ memories' = Persist(committed, memories, st.memories)
                                /\ history' = Persist(committed, history, st.history)
                                /\ last' = [req EXCEPT
                                      !.status = IF raise_at = 0 THEN "ok" ELSE "exception",
                                      !.engine_called = TRUE,
                                      !.committed = committed,
                                      !.results = IF raise_at = 0 THEN response ELSE <<>>,
                                      !.writes = Persist(committed, <<>>, st.writes)]

\* ------------------------------------------------------------ search_memory
\* the points the vector store holds that satisfy Filter(must=conditions):
\* the user_id condition and, only if accessible ids were found, HasIdCondition
QueryCandidates_NoIdCondition(vs, u, accessible) ==
    \* mutant: the HasIdCondition is never added to the filter
    {s \in IdStrs : vs[s] = u}

QueryCandidates_EmptyMeansNone(vs, u, accessible) ==
    \* mutant: the HasIdCondition is added even when no accessible id was found
    LET accessible_memory_ids_str == {IdStr(id) : id \in accessible}
    IN  {s \in IdStrs : vs[s] = u /\ s \in accessible_memory_ids_str}

QueryCandidates(vs, u, accessible) ==
    LET accessible_memory_ids_str == {IdStr(id) : id \in accessible}
    IN  {s \in IdStrs : /\ vs[s] = u
                        /\ (accessible # {} => s \in accessible_memory_ids_str)}

\* query_points(..., limit=10): the candidates by descending score, cut at limit
QueryPoints(cands, score, limit) ==
    {SubSeq([i \in 1..Len(o) |-> [id |-> o[i], score |-> score[o[i]]]],
            1, Min(limit, Len(o)))
       : o \in {o \in Orderings(cands) :
                   \A i, j \in 1..Len(o) : i < j => score[o[i]] >= score[o[j]]}}

SearchLogRow_NoScore(hit, app, query) ==
    \* mutant: the score is not taken from the hit
    [memory_id |-> UUID(hit.id), app_id |-> app, access_type |-> "search",
     query |-> query, score |-> 0]

SearchLogRow(hit, app, query) ==
    [memory_id |-> UUID(hit.id), app_id |-> app, access_type |-> "search",
     query |-> query, score |-> hit.score]

SearchLogRows(hits, app, query) ==
    [i \in 1..Len(hits) |-> SearchLogRow(hits[i], app, query)]

search_memory ==
    /\ nreq < MaxRequests
    /\ nreq' = nreq + 1
    /\ \E caller \in Callers, available \in BOOLEAN, query \in Queries :
      LET user_id == OrDefault(caller[1], DEFAULT_USER_ID)
          client_name == OrDefault(caller[2], DEFAULT_CLIENT_NAME)
          app == AppId(user_id, client_name)
          req == [Idle EXCEPT !.op = "search", !.user = user_id,
                              !.client = client_name, !.query = query]
      IN  IF ~available
          THEN /\ last' = [req EXCEPT !.status = "unavailable"]
               /\ users' = IF ResolvesIdentity(available)
                           THEN get_user_and_app_users(users, user_id) ELSE users
               /\ apps' = IF ResolvesIdentity(available)
                          THEN get_user_and_app_apps(apps, user_id, client_name) ELSE apps
               /\ default_rows' =
                     IF ResolvesIdentity(available)
                     THEN get_user_and_app_rows(default_rows, users, apps,
                                                user_id, client_name)
                     ELSE default_rows
               /\ UNCHANGED <<memories, history, access_log, vstore>>
          ELSE /\ users' = get_user_and_app_users(users, user_id)
               /\ apps' = get_user_and_app_apps(apps, user_id, client_name)
               /\ default_rows' = get_user_and_app_rows(default_rows, users, apps,
                                                        user_id, client_name)
               /\ UNCHANGED <<memories, history, vstore>>
               /\ \E permitted \in SUBSET MemIds :
                    LET accessible == AccessibleIds(memories, user_id, permitted)
                        cands == QueryCandidates(vstore, user_id, accessible)
                    IN  \/ \* embed or query_points raises
                           /\ last' = [req EXCEPT !.status = "exception",
                                                  !.engine_called = TRUE,
                                                  !.accessible = accessible]
                           /\ UNCHANGED access_log
                        \/ \E score \in [cands -> Scores] :
                           \E hits \in QueryPoints(cands, score, QueryLimit) :
                           \E raise_at \in 0..(Len(hits) + 1) :
                             LET done == IF raise_at = 0 THEN hits
                                         ELSE SubSeq(hits, 1, raise_at - 1)
                                 pending == access_log \o SearchLogRows(done, app, query)
                                 committed == raise_at = 0
                             IN  /\ access_log' = Persist(committed, access_log, pending)
                                 /\ last' = [req EXCEPT
                                       !.status = IF committed THEN "ok" ELSE "exception",
                                       !.engine_called = TRUE,
                                       !.committed = committed,
                                       !.accessible = accessible,
                                       !.results = IF committed THEN hits ELSE <<>>]

\* ------------------------------------------------------------ list_memories
\* memory_client.get_all(user_id=...): the memories the store holds for the user
GetAll(vs, u) == {[i \in 1..Len(o) |-> [id |-> o[i]]] : o \in Orderings({s \in IdStrs : vs[s] = u})}

ListLogRow(memory, app) ==
    [memory_id |-> UUID(memory.id), app_id |-> app, access_type |-> "list",
     query |-> None, score |-> None]

IsListed_Always(memory_id, accessible_memory_ids) ==
    \* mutant: the permission filter is left out
    TRUE

\* "if memory_id in accessible_memory_ids"
IsListed(memory_id, accessible_memory_ids) == memory_id \in accessible_memory_ids

\* the loop over memories_list on the session's view st = [access_log, filtered]
RECURSIVE FilterMemories(_, _, _, _)
FilterMemories(st, memories_list, accessible, app) ==
    IF memories_list = <<>> THEN st
    ELSE LET memory == Head(memories_list)
             memory_id == UUID(memory.id)
             nxt == IF IsListed(memory_id, accessible)
                    THEN [access_log |-> Append(st.access_log, ListLogRow(memory, app)),
                          filtered |-> Append(st.filtered, memory)]
                    ELSE st
         IN  FilterMemories(nxt, Tail(memories_list), accessible, app)

list_memories ==
    /\ nreq < MaxRequests
    /\ nreq' = nreq + 1
    /\ \E caller \in Callers, available \in BOOLEAN :
      LET user_id == OrDefault(caller[1], DEFAULT_USER_ID)
          client_name == OrDefault(caller[2], DEFAULT_CLIENT_NAME)
          app == AppId(user_id, client_name)
          req == [Idle EXCEPT !.op = "list", !.user = user_id, !.client = client_name]
      IN  IF ~available
          THEN /\ last' = [req EXCEPT !.status = "unavailable"]
               /\ users' = IF ResolvesIdentity(available)
                           THEN get_user_and_app_users(users, user_id) ELSE users
               /\ apps' = IF ResolvesIdentity(available)
                          THEN get_user_and_app_apps(apps, user_id, client_name) ELSE apps
               /\ default_rows' =
                     IF ResolvesIdentity(available)
                     THEN get_user_and_app_rows(default_rows, users, apps,
                                                user_id, client_name)
                     ELSE default_rows
               /\ UNCHANGED <<memories, history, access_log, vstore>>
          ELSE /\ users' = get_user_and_app_users(users, user_id)
               /\ apps' = get_user_and_app_apps(apps, user_id, client_name)
               /\ default_rows' = get_user_and_app_rows(default_rows, users, apps,
                                                        user_id, client_name)
               /\ UNCHANGED <<memories, history, vstore>>
               /\ \/ \* get_all raises
                     /\ last' = [req EXCEPT !.status = "exception", !.engine_called = TRUE]
                     /\ UNCHANGED access_log
                  \/ \E memories_list \in GetAll(vstore, user_id),
                        permitted \in SUBSET MemIds :
                     \E raise_at \in 0..(Len(memories_list) + 1) :
                       LET accessible == AccessibleIds(memories, user_id, permitted)
                           done == IF raise_at = 0 THEN memories_list
                                   ELSE SubSeq(memories_list, 1, raise_at - 1)
                           st == FilterMemories([access_log |-> access_log,
                                                 filtered |-> <<>>],
                                                done, accessible, app)
                           committed == raise_at = 0
                       IN  /\ access_log' = Persist(committed, access_log, st.access_log)
                           /\ last' = [req EXCEPT
                                 !.status = IF committed THEN "ok" ELSE "exception",
                                 !.engine_called = TRUE,
                                 !.committed = committed,
                                 !.accessible = accessible,
                                 !.results = IF committed THEN st.filtered ELSE <<>>]

\* ------------------------------------------------------------ delete_all_memories
\* the first loop: memory_client.delete(memory_id) for each accessible id, a
\* failure being logged and passed over; failing are the ids whose delete raises
EngineDeleteAll(vs, ids, failing) ==
    [s \in IdStrs |->
        IF \E i \in 1..Len(ids) : IdStr(ids[i]) = s /\ ids[i] \notin failing
        THEN Absent ELSE vs[s]]

MarkDeleted_NoHistory(st, memory_id, u, app) ==
    \* mutant: the history row is not added
    LET memory == st.memories[memory_id]
    IN  [memories |-> [st.memories EXCEPT ![memory_id] =
                          [memory EXCEPT !.state = "deleted", !.deleted_at = Now]],
         history |-> st.history,
         access_log |-> Append(st.access_log,
                           [memory_id |-> memory_id, app_id |-> app,
                            access_type |-> "delete_all", query |-> None,
                            score |-> None]),
         writes |-> Append(st.writes,
                       [id |-> memory_id, before |-> memory.state, after |-> "deleted"])]

MarkDeleted_RewritesHistory(st, memory_id, u, app) ==
    \* mutant: the history rows of the memory are updated in place
    LET memory == st.memories[memory_id]
    IN  [memories |-> [st.memories EXCEPT ![memory_id] =
                          [memory EXCEPT !.state = "deleted", !.deleted_at = Now]],
         history |-> [j \in 1..Len(st.history) |->
                        IF st.history[j].memory_id = memory_id
                        THEN [st.history[j] EXCEPT !.new_state = "deleted"]
                        ELSE st.history[j]],
         access_log |-> Append(st.access_log,
                           [memory_id |-> memory_id, app_id |-> app,
                            access_type |-> "delete_all", query |-> None,
                            score |-> None]),
         writes |-> Append(st.writes,
                       [id |-> memory_id, before |-> memory.state, after |-> "deleted"])]

\* the second loop, on the session's view st = [memories, history, access_log, writes]
MarkDeleted(st, memory_id, u, app) ==
    LET memory == st.memories[memory_id]
    IN  [memories |-> [st.memories EXCEPT ![memory_id] =
                          [memory EXCEPT !.state = "deleted", !.deleted_at = Now]],
         history |-> Append(st.history,
                        [memory_id |-> memory_id, changed_by |-> u,
                         old_state |-> "active", new_state |-> "deleted"]),
         access_log |-> Append(st.access_log,
                           [memory_id |-> memory_id, app_id |-> app,
                            access_type |-> "delete_all", query |-> None,
                            score |-> None]),
         writes |-> Append(st.writes,
                       [id |-> memory_id, before |-> memory.state, after |-> "deleted"])]

IdsToMark_OnlyEngineDeleted(accessible_memory_ids, failing) ==
    \* mutant: only the ids the engine did delete are marked
    SelectSeq(accessible_memory_ids, LAMBDA id : id \notin failing)

\* the ids the second loop goes over: every accessible id, whatever the
\* outcome of its engine delete
IdsToMark(accessible_memory_ids, failing) == accessible_memory_ids

RECURSIVE MarkAllDeleted(_, _, _, _)
MarkAllDeleted(st, ids, u, app) ==
    IF ids = <<>> THEN st
    ELSE MarkAllDeleted(MarkDeleted(st, Head(ids), u, app), Tail(ids), u, app)

delete_all_memories ==
    /\ nreq < MaxRequests
    /\ nreq' = nreq + 1
    /\ \E caller \in Callers, available \in BOOLEAN :
      LET user_id == OrDefault(caller[1], DEFAULT_USER_ID)
          client_name == OrDefault(caller[2], DEFAULT_CLIENT_NAME)
          app == AppId(user_id, client_name)
          req == [Idle EXCEPT !.op = "delete_all", !.user = user_id,
                              !.client = client_name]
      IN  IF ~available
          THEN /\ last' = [req EXCEPT !.status = "unavailable"]
               /\ users' = IF ResolvesIdentity(available)
                           THEN get_user_and_app_users(users, user_id) ELSE users
               /\ apps' = IF ResolvesIdentity(available)
                          THEN get_user_and_app_apps(apps, user_id, client_name) ELSE apps
               /\ default_rows' =
                     IF ResolvesIdentity(available)
                     THEN get_user_and_app_rows(default_rows, users, apps,
                                                user_id, client_name)
                     ELSE default_rows
               /\ UNCHANGED <<memories, history, access_log, vstore>>
          ELSE /\ users' = get_user_and_app_users(users, user_id)
               /\ apps' = get_user_and_app_apps(apps, user_id, client_name)
               /\ default_rows' = get_user_and_app_rows(default_rows, users, apps,
                                                        user_id, client_name)
               /\ \E permitted \in SUBSET MemIds :
                  \E accessible_memory_ids \in
                        Orderings(AccessibleIds(memories, user_id, permitted)) :
                  \E failing \in SUBSET Range(accessible_memory_ids) :
                  \E raise_at \in 0..(Len(accessible_memory_ids) + 1) :
                    LET to_mark == IdsToMark(accessible_memory_ids, failing)
                        done == IF raise_at = 0 THEN to_mark
                                ELSE SubSeq(to_mark, 1, Min(raise_at - 1, Len(to_mark)))
                        st == MarkAllDeleted([memories |-> memories, history |-> history,
                                              access_log |-> access_log, writes |-> <<>>],
                                             done, user_id, app)
                        committed == raise_at = 0
                    IN  /\ vstore' = EngineDeleteAll(vstore, accessible_memory_ids, failing)
                        /\ memories' = Persist(committed, memories, st.memories)
                        /\ history' = Persist(committed, history, st.history)
                        /\ access_log' = Persist(committed, access_log, st.access_log)
                        /\ last' = [req EXCEPT
                              !.status = IF committed THEN "ok" ELSE "exception",
                              !.engine_called = accessible_memory_ids # <<>>,
                              !.committed = committed,
                              !.accessible = Range(accessible_memory_ids),
                              !.engine_deletes = accessible_memory_ids,
                              !.failed_deletes = failing,
                              !.writes = Persist(committed, <<>>, st.writes)]

Next ==
    \/ create_default_user_and_app
    \/ add_memories
    \/ search_memory
    \/ list_memories
    \/ delete_all_memories

Spec == Init /\ [][Next]_vars

\* ====================================================================
\* Properties
\* ====================================================================
\* a step that handles one tool call
Request == nreq' = nreq + 1

\* the ids of the entries of a result array
ResultIds(results) == {UUID(results[i].id) : i \in 1..Len(results)}

\* C1: a search_memory call whose accessible set is non-empty returns only
\* hits whose id is in that set, the set holding only active ledger rows of
\* the resolved user.
C1_SearchWithinAccessible ==
    (last.op = "search" /\ last.status = "ok" /\ last.accessible # {}) =>
        \A i \in 1..Len(last.results) :
            LET id == UUID(last.results[i].id)
            IN  /\ id \in last.accessible
                /\ memories[id] # NoMemory
                /\ memories[id].user_id = last.user

\* a search that returned a hit while the store held another point of the
\* user outside the accessible set
C1_Witness ==
    /\ last.op = "search" /\ last.status = "ok"
    /\ last.accessible # {} /\ last.results # <<>>
    /\ \E s \in IdStrs : vstore[s] = last.user /\ UUID(s) \notin last.accessible

\* C2: every Memory row's state is the new_state of the latest history row
\* written for its id.
HistoryOf(id) == SelectSeq(history, LAMBDA h : h.memory_id = id)

C2_StateIsLatestHistory ==
    \A id \in MemIds :
        memories[id] # NoMemory =>
            /\ HistoryOf(id) # <<>>
            /\ HistoryOf(id)[Len(HistoryOf(id))].new_state = memories[id].state

\* a memory that was created and later deleted
C2_Witness ==
    \E id \in MemIds : memories[id].state = "deleted" /\ Len(HistoryOf(id)) >= 2

\* C3: every state write moves a Memory active -> deleted or
\* deleted/absent -> active.
C3_OnlyValidTransitions ==
    \A i \in 1..Len(last.writes) :
        \/ last.writes[i].before = "active" /\ last.writes[i].after = "deleted"
        \/ last.writes[i].before \in {"absent", "deleted"} /\ last.writes[i].after = "active"

\* C4: after an add_memories call that commits, every ADD event's id has an
\* active Memory row holding the event's text, and the call appended a history
\* row with new_state = active for it.
C4_AddEventActive ==
    [][(Request /\ last'.op = "add" /\ last'.committed) =>
        \A i \in 1..Len(last'.results) :
            last'.results[i].event = "ADD" =>
                LET id == UUID(last'.results[i].id)
                IN  /\ memories'[id].state = "active"
                    /\ memories'[id].content = last'.results[i].memory
                    /\ \E j \in (Len(history) + 1)..Len(history') :
                          /\ history'[j].memory_id = id
                          /\ history'[j].new_state = "active"]_vars

\* an ADD event for an id whose Memory row already existed
C4_Witness ==
    /\ last.op = "add" /\ last.committed
    /\ \E i \in 1..Len(last.writes) :
          last.writes[i].after = "active" /\ last.writes[i].before # "absent"

\* C5 as claimed: after an add_memories call that commits, every DELETE
\* event's id has a Memory row in state deleted with deleted_at set and a
\* history row active -> deleted.
C5_Original ==
    (last.op = "add" /\ last.committed) =>
        \A i \in 1..Len(last.results) :
            last.results[i].event = "DELETE" =>
                LET id == UUID(last.results[i].id)
                IN  /\ memories[id].state = "deleted"
                    /\ memories[id].deleted_at # NULL
                    /\ \E j \in 1..Len(history) :
                          /\ history[j].memory_id = id
                          /\ history[j].old_state = "active"
                          /\ history[j].new_state = "deleted"

\* C5 as amended: the same for every DELETE event whose id has a Memory row
\* in the ledger when the call is made, the history row being appended by the
\* call.
C5_DeleteEventOfKnownMemory ==
    [][(Request /\ last'.op = "add" /\ last'.committed) =>
        \A i \in 1..Len(last'.results) :
            LET id == UUID(last'.results[i].id)
            IN  (last'.results[i].event = "DELETE" /\ memories[id] # NoMemory) =>
                    /\ memories'[id].state = "deleted"
                    /\ memories'[id].deleted_at # NULL
                    /\ \E j \in (Len(history) + 1)..Len(history') :
                          /\ history'[j].memory_id = id
                          /\ history'[j].old_state = "active"
                          /\ history'[j].new_state = "deleted"]_vars

\* a committed DELETE event that marked a Memory row deleted
C5_Witness ==
    /\ last.op = "add" /\ last.committed
    /\ \E i \in 1..Len(last.results) :
          /\ last.results[i].event = "DELETE"
          /\ memories[UUID(last.results[i].id)].state = "deleted"

\* C6: a delete_all_memories call that returns success asked the engine to
\* delete every accessible id, and left every accessible id deleted with
\* deleted_at set, with exactly one new history row (new_state = deleted) and
\* one new access-log row (delete_all), whichever engine deletes failed.
C6_DeleteAllMarksEveryAccessible ==
    [][(Request /\ last'.op = "delete_all" /\ last'.status = "ok") =>
        /\ last'.accessible =
              {id \in MemIds : /\ memories[id].user_id = last'.user
                               /\ memories[id].state = "active"
                               /\ id \in last'.accessible}
        /\ last'.failed_deletes \subseteq last'.accessible
        /\ \A id \in last'.accessible :
              /\ Cardinality({k \in 1..Len(last'.engine_deletes) :
                                 last'.engine_deletes[k] = id}) = 1
              /\ memories'[id].state = "deleted"
              /\ memories'[id].deleted_at # NULL
              /\ Cardinality({j \in (Len(history) + 1)..Len(history') :
                                 history'[j].memory_id = id}) = 1
              /\ \E j \in (Len(history) + 1)..Len(history') :
                    history'[j].memory_id = id /\ history'[j].new_state = "deleted"
              /\ Cardinality({j \in (Len(access_log) + 1)..Len(access_log') :
                                 access_log'[j].memory_id = id}) = 1
              /\ \E j \in (Len(access_log) + 1)..Len(access_log') :
                    /\ access_log'[j].memory_id = id
                    /\ access_log'[j].access_type = "delete_all"]_vars

\* a successful delete_all during which an engine delete failed and another
\* did not
C6_Witness ==
    /\ last.op = "delete_all" /\ last.status = "ok"
    /\ last.failed_deletes # {}
    /\ last.failed_deletes # last.accessible
    /\ \A id \in last.accessible : memories[id].state = "deleted"

\* C7: list_memories returns only entries whose id is accessible, no more
\* entries than there are accessible ids, and appends exactly one access-log
\* row (access_type = list) per returned entry and no other row.
C7_ListWithinAccessible ==
    [][(Request /\ last'.op = "list" /\ last'.status = "ok") =>
        /\ ResultIds(last'.results) \subseteq last'.accessible
        /\ Len(last'.results) <= Cardinality(last'.accessible)
        /\ Len(access_log') = Len(access_log) + Len(last'.results)
        /\ \A i \in 1..Len(last'.results) :
              /\ access_log'[Len(access_log) + i].memory_id = UUID(last'.results[i].id)
              /\ access_log'[Len(access_log) + i].access_type = "list"
        /\ SubSeq(access_log', 1, Len(access_log)) = access_log]_vars

\* a list that returned an entry and filtered another one out
C7_Witness ==
    /\ last.op = "list" /\ last.status = "ok" /\ last.results # <<>>
    /\ \E s \in IdStrs : vstore[s] = last.user /\ UUID(s) \notin last.accessible

\* C8: a search_memory call that returns an array appends exactly one
\* access-log row per hit, with the hit's id, access_type = search, the query
\* and the hit's score, and no other row.
C8_SearchLogsEachHit ==
    [][(Request /\ last'.op = "search" /\ last'.status = "ok") =>
        /\ Len(access_log') = Len(access_log) + Len(last'.results)
        /\ \A i \in 1..Len(last'.results) :
              LET row == access_log'[Len(access_log) + i]
              IN  /\ row.memory_id = UUID(last'.results[i].id)
                  /\ row.access_type = "search"
                  /\ row.query = last'.query
                  /\ row.score = last'.results[i].score
        /\ SubSeq(access_log', 1, Len(access_log)) = access_log]_vars

\* a search that returned two hits with different scores
C8_Witness ==
    /\ last.op = "search" /\ last.status = "ok" /\ Len(last.results) = 2
    /\ last.results[1].score # last.results[2].score

\* C9: a call during which an exception is raised before the commit persists
\* no Memory, history or access-log row and returns an error.
C9_ExceptionPersistsNothing ==
    [][(Request /\ last'.status = "exception") =>
        /\ memories' = memories
        /\ history' = history
        /\ access_log' = access_log
        /\ ~last'.committed
        /\ last'.results = <<>>]_vars

\* an add_memories call that failed after the engine had stored a new memory:
\* the ledger has no row for it
C9_Witness ==
    /\ last.op = "add" /\ last.status = "exception"
    /\ \E s \in IdStrs : vstore[s] = last.user /\ memories[UUID(s)] = NoMemory

\* C10: add_memories for a paused App returns the paused error without
\* calling the engine and without touching Memory or history rows (or the
\* vector store); the other handlers never answer with the paused error.
C10_PausedAppCannotAdd ==
    [][(Request /\ last'.status # "unavailable"
          /\ apps[<<last'.user, last'.client>>] = "paused") =>
        IF last'.op = "add"
        THEN /\ last'.status = "paused"
             /\ ~last'.engine_called
             /\ memories' = memories
             /\ history' = history
             /\ vstore' = vstore
        ELSE last'.status \in {"ok", "exception"}]_vars

\* add_memories was refused for a paused App whose user has memories
C10_Witness ==
    /\ last.op = "add" /\ last.status = "paused"
    /\ \E id \in MemIds : memories[id].user_id = last.user

\* C11: a call made while the memory client is unavailable is answered with
\* the unavailable error without a database session or an engine call: users,
\* apps, memories, history, access log and vector store are as before.
C11_UnavailableChangesNothing ==
    [][(Request /\ last'.status = "unavailable") =>
        /\ users' = users
        /\ apps' = apps
        /\ default_rows' = default_rows
        /\ memories' = memories
        /\ history' = history
        /\ access_log' = access_log
        /\ vstore' = vstore
        /\ ~last'.engine_called]_vars

\* a call answered with the unavailable error by a caller that has no User or
\* App row, while the ledger holds rows
C11_Witness ==
    /\ last.status = "unavailable"
    /\ last.user \notin users
    /\ apps[AppId(last.user, last.client)] = Absent
    /\ history # <<>>

\* C12: the history and the access log only grow at their end: each log
\* before a step is a prefix of the log after it.
IsPrefix(s, t) == Len(s) <= Len(t) /\ SubSeq(t, 1, Len(s)) = s

C12_LogsAppendOnly ==
    [][IsPrefix(history, history') /\ IsPrefix(access_log, access_log')]_vars

\* both logs hold rows of more than one call, the latest a delete_all
C12_Witness ==
    /\ last.op = "delete_all" /\ last.committed /\ last.writes # <<>>
    /\ Len(history) >= 2
    /\ Len(access_log) >= 2

\* C13: a run of create_default_user_and_app leaves exactly one default User
\* row and exactly one default App row, the App active if the run created it;
\* a default User or App that was there before, and every other row, is as it
\* was.
DefaultApp == AppId(DEFAULT_USER_ID, DEFAULT_CLIENT_NAME)

C13_SeedingIdempotent ==
    [][(nreq' = nreq) =>
        /\ DEFAULT_USER_ID \in users' /\ default_rows'.user = 1
        /\ apps'[DefaultApp] # Absent /\ default_rows'.app = 1
        /\ apps[DefaultApp] = Absent => apps'[DefaultApp] = "active"
        /\ apps[DefaultApp] # Absent => apps'[DefaultApp] = apps[DefaultApp]
        /\ \A k \in AppIds \ {DefaultApp} : apps'[k] = apps[k]
        /\ users' \ {DEFAULT_USER_ID} = users \ {DEFAULT_USER_ID}
        /\ UNCHANGED <<memories, history, access_log, vstore>>]_vars

\* seeding created the default App for a default User that was already there
C13_Witness ==
    /\ nreq = 0
    /\ apps[DefaultApp] = "active"
    /\ apps[AppId(DEFAULT_USER_ID, "c2")] = "paused"
    /\ default_rows = [user |-> 1, app |-> 1]

\* C14: the old_state of every history row a call appends is the state the
\* Memory row had just before that write, null if there was no row.
C14_OldStateIsStateBefore ==
    /\ Len(last.writes) <= Len(history)
    /\ \A i \in 1..Len(last.writes) :
          history[Len(history) - Len(last.writes) + i].old_state =
              (IF last.writes[i].before = "absent" THEN None
               ELSE last.writes[i].before)

\* C15: with an empty accessible set search_memory puts no id condition on the
\* query, so it returns and logs the points the store holds for the user (up
\* to the limit); list_memories then returns nothing and logs nothing.
PointsOf(u) == {UUID(s) : s \in {s \in IdStrs : vstore[s] = u}}

C15_EmptyAccessibleSet ==
    (last.status = "ok" /\ last.accessible = {}) =>
        /\ last.op = "search" =>
              /\ ResultIds(last.results) \subseteq PointsOf(last.user)
              /\ Len(last.results) = Min(QueryLimit, Cardinality(PointsOf(last.user)))
              /\ Len(access_log) >= Len(last.results)
              /\ \A i \in 1..Len(last.results) :
                    access_log[Len(access_log) - Len(last.results) + i].memory_id
                        = UUID(last.results[i].id)
        /\ last.op = "list" => last.results = <<>>

\* a search with an empty accessible set that returned a memory the ledger
\* has as deleted
C15_Witness ==
    /\ last.op = "search" /\ last.status = "ok" /\ last.accessible = {}
    /\ \E i \in 1..Len(last.results) :
          memories[UUID(last.results[i].id)].state = "deleted"

\* C16: a search_memory call that follows a successful delete_all_memories of
\* the same user and app returns none of the memories that call marked
\* deleted.
C16_SearchAfterDeleteAll ==
    [][(/\ last.op = "delete_all" /\ last.status = "ok"
        /\ Request
        /\ last'.op = "search" /\ last'.status = "ok"
        /\ last'.user = last.user /\ last'.client = last.client) =>
        ResultIds(last'.results) \cap last.accessible = {}]_vars

\* C17: a Memory row has a deleted_at exactly when its state is deleted.
C17_DeletedAtIffDeleted ==
    \A id \in MemIds :
        memories[id] # NoMemory =>
            (memories[id].deleted_at # NULL <=> memories[id].state = "deleted")

\* C18: in an add_memories call that commits, only an ADD event and a DELETE
\* event whose id has a Memory row write: the Memory row of any other id is
\* as before and has no new history row, and there is one new history row
\* per writing event.
C18_OtherEventsWriteNothing ==
    [][(Request /\ last'.op = "add" /\ last'.committed) =>
        LET results == last'.results
            Writes(i) == \/ results[i].event = "ADD"
                         \/ /\ results[i].event = "DELETE"
                            /\ memories[UUID(results[i].id)] # NoMemory
            written == {UUID(results[i].id) : i \in {i \in 1..Len(results) : Writes(i)}}
        IN  /\ \A id \in MemIds \ written :
                  /\ memories'[id] = memories[id]
                  /\ \A j \in (Len(history) + 1)..Len(history') :
                        history'[j].memory_id # id
            /\ Len(history') = Len(history) + Cardinality(written)]_vars

\* a committed call that returned an UPDATE event for a known memory and a
\* DELETE event for an id without a Memory row
C18_Witness ==
    /\ last.op = "add" /\ last.committed
    /\ \E i, j \in 1..Len(last.results) :
          /\ last.results[i].event = "UPDATE"
          /\ memories[UUID(last.results[i].id)] # NoMemory
          /\ last.results[j].event = "DELETE"
          /\ memories[UUID(last.results[j].id)] = NoMemory

\* C19: every history row and every access-log row names a memory id that has
\* a Memory row.
C19_LogsReferToMemories ==
    /\ \A j \in 1..Len(history) : memories[history[j].memory_id] # NoMemory
    /\ \A j \in 1..Len(access_log) : memories[access_log[j].memory_id] # NoMemory
====
